---- MODULE Spec2Model ----
(***************************************************************************)
(* Model of the AmpAndGrafanaStack CDK application (src/bin/index.ts).     *)
(*                                                                         *)
(* Three parts:                                                            *)
(*  - the construction step: the constructor of AmpAndGrafanaStack, one    *)
(*    step per create* method, building the resource definitions and the   *)
(*    references between them (a reference to another resource's attribute *)
(*    is what declares a dependency edge);                                 *)
(*  - the provisioning engine (CloudFormation), the environment of the     *)
(*    program: it creates a resource only when every resource it refers to *)
(*    is present, may fail a creation and roll back, and tears down in     *)
(*    reverse order;                                                       *)
(*  - the ARN transformation of createPrometheusScraperRoleBinding         *)
(*    (Fn::Split / Fn::Select / string template), computed on sequences of *)
(*    characters.                                                          *)
(***************************************************************************)
EXTENDS Integers, Sequences, FiniteSets, TLC

VARIABLES
    regionAzs,      \* environment: number of availability zones of each region
    config,         \* per synthesis run: account, region, scrape configuration blob
    pc,             \* per synthesis run: the constructor's position
    stack,          \* per synthesis run: the stack under construction
    phase,          \* engine: "synth" | "deploy" | "rollback" | "destroy"
    status,         \* engine: resource id -> "absent" | "present" | "failed"
    attrRoleArn,    \* the scraper's provider-generated role ARN (attrRoleArn)
    awsAuth,        \* the identity-mapping entries applied to the cluster
    arnPc,          \* position inside the ARN transformation (lines 177-180)
    splitArn,       \* const splitArn
    suffix,         \* const suffix
    prefix,         \* const prefix
    modifiedArn     \* const modifiedArn

vars == <<regionAzs, config, pc, stack, phase, status, attrRoleArn, awsAuth,
          arnPc, splitArn, suffix, prefix, modifiedArn>>

synthVars == <<regionAzs, config, pc, stack>>
engineVars == <<phase, status, awsAuth>>
arnVars == <<arnPc, splitArn, suffix, prefix, modifiedArn>>

----------------------------------------------------------------------------
(* Bounds of the model *)

\* availability zones a region may offer (the network uses at most maxAzs)
AvailableAzs == 4
\* ARN inputs: at most this many '/'-delimited segments
MaxSegments == 5

(* Program constants *)

\* maxAzs: 3
maxAzs == 3
\* cdk.Fn.select(3, splitArn)
suffixIndex == 3
\* cdk.Fn.select(0, splitArn)
prefixIndex == 0
\* desiredSize: 1
desiredSize == 1

Runs == {1, 2}
NONE == "none"

Min(a, b) == IF a < b THEN a ELSE b

----------------------------------------------------------------------------
(* The ARN transformation, lines 177-180.  A string is a sequence of       *)
(* characters; "/" is the delimiter and every other element stands for a   *)
(* run of characters that holds no "/".                                    *)

SLASH == "/"

\* what CloudFormation reports for Fn::Select with an index past the list
SelectError == <<"Fn::Select: index out of range">>

RECURSIVE SplitFrom(_, _, _, _)
SplitFrom(delim, s, cur, acc) ==
    IF s = <<>> THEN Append(acc, cur)
    ELSE IF Head(s) = delim
         THEN SplitFrom(delim, Tail(s), <<>>, Append(acc, cur))
         ELSE SplitFrom(delim, Tail(s), Append(cur, Head(s)), acc)

\* cdk.Fn.split(delim, s): the list of the pieces of s between delimiters
FnSplit(delim, s) == SplitFrom(delim, s, <<>>, <<>>)

\* cdk.Fn.select(i, list): the element at 0-based index i
FnSelect(i, list) ==
    IF i < Len(list) THEN list[i + 1] ELSE SelectError

\* `${prefix}/${suffix}`
Template(p, s) ==
    IF p = SelectError \/ s = SelectError THEN SelectError
    ELSE p \o <<SLASH>> \o s

\* a variant that selects one position too early
SuffixOfOffByOne(list) == FnSelect(suffixIndex - 1, list)

\* const suffix = cdk.Fn.select(3, splitArn)
SuffixOf(list) == FnSelect(suffixIndex, list)

\* a variant that takes the segment after the service prefix
PrefixOfSecond(list) == FnSelect(prefixIndex + 1, list)

\* const prefix = cdk.Fn.select(0, splitArn)
PrefixOf(list) == FnSelect(prefixIndex, list)

\* lines 177-180 as one computation
ModifiedArn(arn) ==
    Template(PrefixOf(FnSplit(SLASH, arn)), SuffixOf(FnSplit(SLASH, arn)))

----------------------------------------------------------------------------
(* The construction step: lines 6-13 and 24-215.                           *)

\* new cdk.App(); new AmpAndGrafanaStack(app, 'AmpAndGrafanaStack', {env})
Accounts == {"114043003553", "<account-id>"}
Regions == {"us-east-1"}
\* import configBlob from '../config/config-blob': opaque text
ConfigBlobs == {"config-blob", "config-blob-2"}
Configs == [account : Accounts, region : Regions, blob : ConfigBlobs]

PublicSubnetIds == <<"VPC/PublicSubnet1", "VPC/PublicSubnet2", "VPC/PublicSubnet3">>
PrivateSubnetIds == <<"VPC/PrivateSubnet1", "VPC/PrivateSubnet2", "VPC/PrivateSubnet3">>

PUBLIC == "PUBLIC"
PRIVATE_WITH_EGRESS == "PRIVATE_WITH_EGRESS"

\* One resource definition: its type, the resources its properties refer to
\* (each reference declares a dependency edge) and its properties.
Resource(type, refs, props) == [type |-> type, refs |-> refs, props |-> props]

\* super(scope, id, props): the empty stack of a run
EmptyStack(cfg) ==
    [ env                 |-> [account |-> cfg.account, region |-> cfg.region],
      blob                |-> cfg.blob,
      resources           |-> << >>,
      vpc                 |-> << >>,
      cluster             |-> NONE,
      prometheusWorkspace |-> NONE,
      prometheusScraper   |-> NONE ]

Declare(s, id, res) == [s EXCEPT !.resources = (id :> res) @@ s.resources]

\* the zones the network spans: at most maxAzs of those the region offers
NumAzs(s) == Min(maxAzs, regionAzs[s.env.region])

\* the default subnet configuration: one public and one private-with-egress
\* subnet in each zone
SubnetsOf(n) ==
    [i \in 1..(2 * n) |->
        IF i <= n
        THEN [subnetId |-> PublicSubnetIds[i], subnetType |-> PUBLIC, az |-> i]
        ELSE [subnetId |-> PrivateSubnetIds[i - n],
              subnetType |-> PRIVATE_WITH_EGRESS, az |-> i - n]]

RECURSIVE DeclareSubnets(_, _, _)
DeclareSubnets(s, subnets, i) ==
    IF i > Len(subnets) THEN s
    ELSE DeclareSubnets(
            Declare(s, subnets[i].subnetId,
                    Resource("AWS::EC2::Subnet", {"VPC"},
                             [subnetType |-> subnets[i].subnetType,
                              az |-> subnets[i].az])),
            subnets, i + 1)

\* createVPC(), lines 41-47
createVPC(s) ==
    LET withVpc == Declare(s, "VPC",
                     Resource("AWS::EC2::VPC", {},
                              [maxAzs |-> maxAzs,
                               enableDnsHostnames |-> TRUE,
                               enableDnsSupport |-> TRUE]))
        subnets == SubnetsOf(NumAzs(s))
    IN  [DeclareSubnets(withVpc, subnets, 1) EXCEPT !.vpc = subnets]

\* a variant of selectSubnets that ignores the requested subnet type
selectSubnetsAll(subnets, subnetType) == subnets

\* vpc.selectSubnets({subnetType}).subnets
selectSubnets(subnets, subnetType) ==
    SelectSeq(subnets, LAMBDA sn : sn.subnetType = subnetType)

\* privateSubnets.map(subnet => subnet.subnetId)
SubnetIdsOf(subnets) == [i \in 1..Len(subnets) |-> subnets[i].subnetId]

Range(f) == {f[i] : i \in DOMAIN f}

\* every resource of the network construct
NetworkIds(s) == {"VPC"} \cup Range(SubnetIdsOf(s.vpc))
\* A reference to an attribute of a resource, resolved by the engine when the
\* referring resource is created.  transform "prefix/suffix" is the
\* Fn::Split / Fn::Select / template expression of lines 177-180.
Token(ref, attr, transform) == [ref |-> ref, attr |-> attr, transform |-> transform]

\* the aws-auth mapping of a role to a user name and groups
RoleMapping(rolearn, username, groups) ==
    [rolearn |-> rolearn, username |-> username, groups |-> groups]

\* a variant that registers the manifest without attaching it to the cluster
addManifestDetached(s, id, manifest) ==
    Declare(s, id, Resource("KubernetesManifest", {"KubectlLayer"}, manifest))

\* this.cluster.addManifest(id, manifest): a manifest resource applied
\* through the cluster's kubectl provider
addManifest(s, id, manifest) ==
    Declare(s, id, Resource("KubernetesManifest", {s.cluster, "KubectlLayer"}, manifest))

\* this.cluster.awsAuth.addRoleMapping(role, mapping): the aws-auth manifest
\* (created on first use) gains the entry and a reference to what the role's
\* ARN is computed from
addRoleMapping(s, mapping) ==
    LET old == IF "AwsAuth" \in DOMAIN s.resources
               THEN s.resources["AwsAuth"]
               ELSE Resource("KubernetesManifest", {s.cluster, "KubectlLayer"},
                             [mapRoles |-> << >>])
    IN  Declare(s, "AwsAuth",
                Resource(old.type,
                         old.refs \cup (IF mapping.rolearn.ref = NONE THEN {}
                                        ELSE {mapping.rolearn.ref}),
                         [mapRoles |-> Append(old.props.mapRoles, mapping)]))

\* cluster.addNodegroupCapacity("ManagedNodeGroup", {...}), lines 67-70: the
\* node group, its instance role, and the role's aws-auth mapping
addNodegroupCapacity(s) ==
    LET withRole == Declare(s, "NodegroupRole",
                       Resource("AWS::IAM::Role", {},
                                [assumedBy |-> "ec2.amazonaws.com"]))
        withGroup == Declare(withRole, "ManagedNodeGroup",
                       Resource("AWS::EKS::Nodegroup", {s.cluster, "NodegroupRole"},
                                [instanceTypes |-> <<"m5.large">>,
                                 desiredSize |-> desiredSize]))
    IN  addRoleMapping(withGroup,
            RoleMapping(Token("NodegroupRole", "Arn", "none"),
                        "system:node:{{EC2PrivateDNSName}}",
                        {"system:bootstrappers", "system:nodes"}))

\* createEKSCluster(), lines 49-81
createEKSCluster(s) ==
    LET withLayer == Declare(s, "KubectlLayer",
                        Resource("AWS::Lambda::LayerVersion", {}, [version |-> "v30"]))
        withCluster == Declare(withLayer, "Cluster",
                        Resource("AWS::EKS::Cluster", NetworkIds(s),
                            [version |-> "1.30",
                             subnetIds |-> SubnetIdsOf(selectSubnets(s.vpc, PRIVATE_WITH_EGRESS)),
                             clusterLogging |-> <<"api", "authenticator", "audit">>,
                             endpointAccess |-> "PUBLIC_AND_PRIVATE"]))
    IN  addNodegroupCapacity([withCluster EXCEPT !.cluster = "Cluster"])

\* a variant whose alias counts the stacks this process has synthesized
createPrometheusWorkspaceCounted(s) ==
    [Declare(s, "PrometheusWorkspace",
             Resource("AWS::APS::Workspace", {},
                      [alias |-> IF \E r \in Runs : pc[r] = "synthesized"
                                 THEN "my-prometheus-workspace-2"
                                 ELSE "my-prometheus-workspace"]))
        EXCEPT !.prometheusWorkspace = "PrometheusWorkspace"]

\* createPrometheusWorkspace(), lines 83-90
createPrometheusWorkspace(s) ==
    [Declare(s, "PrometheusWorkspace",
             Resource("AWS::APS::Workspace", {},
                      [alias |-> "my-prometheus-workspace"]))
        EXCEPT !.prometheusWorkspace = "PrometheusWorkspace"]

\* the scraper's properties, lines 99-114
ScraperProps(s, privateSubnets) ==
    [destination |-> Token(s.prometheusWorkspace, "Arn", "none"),
     configurationBlob |-> s.blob,
     clusterArn |-> Token(s.cluster, "Arn", "none"),
     subnetIds |-> SubnetIdsOf(privateSubnets)]

\* a variant that names the cluster by a literal ARN instead of the handle
createPromehtheusScraperLiteralCluster(s) ==
    LET privateSubnets == selectSubnets(s.vpc, PRIVATE_WITH_EGRESS)
        props == [ScraperProps(s, privateSubnets)
                    EXCEPT !.clusterArn = Token(NONE, "Arn", "none")]
    IN  [Declare(s, "PrometheusScraper",
                 Resource("AWS::APS::Scraper",
                          {props.destination.ref} \cup Range(props.subnetIds),
                          props))
            EXCEPT !.prometheusScraper = "PrometheusScraper"]

\* a variant that makes the scraper wait for the identity mapping
createPromehtheusScraperAfterAuth(s) ==
    LET privateSubnets == selectSubnets(s.vpc, PRIVATE_WITH_EGRESS)
        props == ScraperProps(s, privateSubnets)
    IN  [Declare(s, "PrometheusScraper",
                 Resource("AWS::APS::Scraper",
                          {props.destination.ref, props.clusterArn.ref, "AwsAuth"}
                              \cup Range(props.subnetIds),
                          props))
            EXCEPT !.prometheusScraper = "PrometheusScraper"]

\* createPromehtheusScraper(), lines 92-117
createPromehtheusScraper(s) ==
    LET privateSubnets == selectSubnets(s.vpc, PRIVATE_WITH_EGRESS)
        props == ScraperProps(s, privateSubnets)
    IN  [Declare(s, "PrometheusScraper",
                 Resource("AWS::APS::Scraper",
                          {props.destination.ref, props.clusterArn.ref}
                              \cup Range(props.subnetIds),
                          props))
            EXCEPT !.prometheusScraper = "PrometheusScraper"]

\* lines 121-150
clusterRoleManifest ==
    [kind |-> "ClusterRole", name |-> "aps-collector-role",
     verbs |-> {"describe", "get", "list", "watch"}]

\* lines 156-172
clusterRoleBindingManifest ==
    [kind |-> "ClusterRoleBinding", name |-> "aps-collector-user-role-binding",
     subject |-> "aps-collector-user", roleRef |-> "aps-collector-role"]

\* a variant that imports the role from a literal ARN
ScraperRoleArnLiteral(s) == Token(NONE, "RoleArn", "none")

\* lines 177-183: the imported role's ARN, computed from the scraper's
\* attrRoleArn
ScraperRoleArn(s) == Token(s.prometheusScraper, "RoleArn", "prefix/suffix")

\* createPrometheusScraperRoleBinding(), lines 119-194
createPrometheusScraperRoleBinding(s) ==
    LET withRole == addManifest(s, "ApsCollectorClusterRole", clusterRoleManifest)
        withBinding == addManifest(withRole, "ApsCollectorClusterRoleBinding",
                                   clusterRoleBindingManifest)
    IN  addRoleMapping(withBinding,
            RoleMapping(ScraperRoleArn(s), "aps-collector-user", {"system:masters"}))

\* a variant that also hands the workspace the cluster's name
createGrafanaWorkspaceOnCluster(s) ==
    LET withRole == Declare(s, "GrafanaRole",
                       Resource("AWS::IAM::Role", {},
                                [assumedBy |-> "grafana.amazonaws.com",
                                 managedPolicies |-> <<"AmazonPrometheusFullAccess">>]))
    IN  Declare(withRole, "GrafanaWorkspace",
                Resource("AWS::Grafana::Workspace", {"GrafanaRole", s.cluster},
                         [name |-> "my-grafana-workspace",
                          accountAccessType |-> "CURRENT_ACCOUNT",
                          authenticationProviders |-> <<"AWS_SSO">>,
                          permissionType |-> "SERVICE_MANAGED",
                          roleArn |-> Token("GrafanaRole", "Arn", "none"),
                          pluginAdminEnabled |-> TRUE]))

\* createGrafanaWorkspace(), lines 196-214
createGrafanaWorkspace(s) ==
    LET withRole == Declare(s, "GrafanaRole",
                       Resource("AWS::IAM::Role", {},
                                [assumedBy |-> "grafana.amazonaws.com",
                                 managedPolicies |-> <<"AmazonPrometheusFullAccess">>]))
    IN  Declare(withRole, "GrafanaWorkspace",
                Resource("AWS::Grafana::Workspace", {"GrafanaRole"},
                         [name |-> "my-grafana-workspace",
                          accountAccessType |-> "CURRENT_ACCOUNT",
                          authenticationProviders |-> <<"AWS_SSO">>,
                          permissionType |-> "SERVICE_MANAGED",
                          roleArn |-> Token("GrafanaRole", "Arn", "none"),
                          pluginAdminEnabled |-> TRUE]))

\* The constructor, lines 30-39: one action per call, in the order written.
ConstructorStep(r, at, result, next) ==
    /\ pc[r] = at
    /\ stack' = [stack EXCEPT ![r] = result]
    /\ pc' = [pc EXCEPT ![r] = next]
    /\ UNCHANGED <<regionAzs, config>>

CreateVPC(r) ==
    ConstructorStep(r, "createVPC", createVPC(stack[r]), "createEKSCluster")

CreateEKSCluster(r) ==
    ConstructorStep(r, "createEKSCluster", createEKSCluster(stack[r]),
                    "createPrometheusWorkspace")

CreatePrometheusWorkspace(r) ==
    ConstructorStep(r, "createPrometheusWorkspace",
                    createPrometheusWorkspace(stack[r]), "createPromehtheusScraper")

CreatePromehtheusScraper(r) ==
    ConstructorStep(r, "createPromehtheusScraper",
                    createPromehtheusScraper(stack[r]),
                    "createPrometheusScraperRoleBinding")

CreatePrometheusScraperRoleBinding(r) ==
    ConstructorStep(r, "createPrometheusScraperRoleBinding",
                    createPrometheusScraperRoleBinding(stack[r]),
                    "createGrafanaWorkspace")

CreateGrafanaWorkspace(r) ==
    ConstructorStep(r, "createGrafanaWorkspace",
                    createGrafanaWorkspace(stack[r]), "synthesized")

Synthesized(r) == pc[r] = "synthesized"

\* the dependency edges a stack declares: one per reference
DependsOn(s) ==
    {e \in (DOMAIN s.resources) \X (DOMAIN s.resources) :
        e[2] \in s.resources[e[1]].refs}
----------------------------------------------------------------------------
(* The provisioning engine the stack is handed to (lines 6-13).  It is the *)
(* environment of the program: it deploys the stack of run 1, creating a   *)
(* resource only once every resource it refers to is present.              *)

Deployed == stack[1]
Ids == DOMAIN Deployed.resources
RefsOf(id) == Deployed.resources[id].refs

\* role ARNs the metrics service generates for a scraper
ProviderArns ==
    { <<"arn:aws:iam::123:role", SLASH, "aws-service-role", SLASH,
        "aps.amazonaws.com", SLASH, "AWSServiceRoleForAmazonPrometheusScraper_x">>,
      <<"arn:aws:iam::123:role", SLASH, "aws-service-role", SLASH,
        "aps.amazonaws.com", SLASH, "AWSServiceRoleForAmazonPrometheusScraper_y">> }

NodegroupRoleArn == <<"arn:aws:iam::123:role", SLASH, "NodegroupRole">>

\* the value of a token once the resource it refers to exists
Resolve(tok) ==
    LET raw == IF tok.ref = "PrometheusScraper" THEN attrRoleArn ELSE NodegroupRoleArn
    IN  IF tok.transform = "prefix/suffix" THEN ModifiedArn(raw) ELSE raw

ResolvedRoles(id) ==
    LET m == Deployed.resources[id].props.mapRoles
    IN  [i \in 1..Len(m) |-> [rolearn |-> Resolve(m[i].rolearn),
                              username |-> m[i].username,
                              groups |-> m[i].groups]]

Present(id) == id \in DOMAIN status /\ status[id] = "present"
Absent(id) == id \in DOMAIN status /\ status[id] = "absent"
Failed(id) == id \in DOMAIN status /\ status[id] = "failed"

Creatable(id) ==
    /\ phase = "deploy"
    /\ Absent(id)
    /\ \A d \in RefsOf(id) : Present(d)

\* cdk deploy: the synthesized stack is submitted
Deploy ==
    /\ phase = "synth"
    /\ Synthesized(1)
    /\ phase' = "deploy"
    /\ status' = [id \in Ids |-> "absent"]
    /\ UNCHANGED <<synthVars, attrRoleArn, awsAuth, arnVars>>

\* the engine creates one resource
CreateResource(id) ==
    /\ Creatable(id)
    /\ status' = [status EXCEPT ![id] = "present"]
    /\ IF id = "PrometheusScraper"
       THEN attrRoleArn' \in ProviderArns
       ELSE UNCHANGED attrRoleArn
    /\ IF id = "AwsAuth"
       THEN /\ \A i \in DOMAIN ResolvedRoles(id) :
                    ResolvedRoles(id)[i].rolearn # SelectError
            /\ awsAuth' = ResolvedRoles(id)
       ELSE UNCHANGED awsAuth
    /\ UNCHANGED <<synthVars, phase, arnVars>>

\* a creation fails and the engine starts rolling back
FailResource(id) ==
    /\ Creatable(id)
    /\ status' = [status EXCEPT ![id] = "failed"]
    /\ phase' = "rollback"
    /\ UNCHANGED <<synthVars, attrRoleArn, awsAuth, arnVars>>

\* cdk destroy, once everything is deployed
Destroy ==
    /\ phase = "deploy"
    /\ \A id \in Ids : Present(id)
    /\ phase' = "destroy"
    /\ UNCHANGED <<synthVars, status, attrRoleArn, awsAuth, arnVars>>

\* the engine deletes one resource that nothing present refers to
DeleteResource(id) ==
    /\ phase \in {"rollback", "destroy"}
    /\ Present(id)
    /\ \A other \in Ids : id \in RefsOf(other) => ~Present(other)
    /\ status' = [status EXCEPT ![id] = "absent"]
    /\ attrRoleArn' = IF id = "PrometheusScraper" THEN << >> ELSE attrRoleArn
    /\ awsAuth' = IF id = "AwsAuth" THEN << >> ELSE awsAuth
    /\ UNCHANGED <<synthVars, phase, arnVars>>

----------------------------------------------------------------------------
(* The ARN transformation, one action per line of lines 177-180. *)

SplitArn ==
    /\ arnPc = "split"
    /\ splitArn' = FnSplit(SLASH, attrRoleArn)
    /\ arnPc' = "suffix"
    /\ UNCHANGED <<synthVars, engineVars, attrRoleArn, suffix, prefix, modifiedArn>>

SelectSuffix ==
    /\ arnPc = "suffix"
    /\ suffix' = SuffixOf(splitArn)
    /\ arnPc' = "prefix"
    /\ UNCHANGED <<synthVars, engineVars, attrRoleArn, splitArn, prefix, modifiedArn>>

SelectPrefix ==
    /\ arnPc = "prefix"
    /\ prefix' = PrefixOf(splitArn)
    /\ arnPc' = "template"
    /\ UNCHANGED <<synthVars, engineVars, attrRoleArn, splitArn, suffix, modifiedArn>>

BuildModifiedArn ==
    /\ arnPc = "template"
    /\ modifiedArn' = Template(prefix, suffix)
    /\ arnPc' = "done"
    /\ UNCHANGED <<synthVars, engineVars, attrRoleArn, splitArn, suffix, prefix>>

----------------------------------------------------------------------------
(* Specifications *)

\* segments of the ARN inputs: runs of characters without "/"
Segments == { << >>, <<"a">>, <<"b">>, <<"a", "b">> }

RECURSIVE Join(_)
Join(segs) ==
    IF Len(segs) = 1 THEN segs[1]
    ELSE segs[1] \o <<SLASH>> \o Join(Tail(segs))

SegmentLists == UNION { [1..n -> Segments] : n \in 1..MaxSegments }

LiteralSegments ==
    << <<"arn:aws:iam::123:role">>, <<"aws-service-role">>,
       <<"aps.amazonaws.com">>, <<"AWSServiceRoleForAmazonPrometheusScraper_x">> >>

ArnInputs == { Join(segs) : segs \in SegmentLists \cup {LiteralSegments} }

InitSynth ==
    /\ regionAzs \in [Regions -> 1..AvailableAzs]
    /\ config \in [Runs -> Configs]
    /\ pc = [r \in Runs |-> "createVPC"]
    /\ stack = [r \in Runs |-> EmptyStack(config[r])]

InitEngine ==
    /\ phase = "synth"
    /\ status = << >>
    /\ awsAuth = << >>

InitArn ==
    /\ arnPc = "split"
    /\ splitArn = << >>
    /\ suffix = << >>
    /\ prefix = << >>
    /\ modifiedArn = << >>

Constructor(r) ==
    /\ \/ CreateVPC(r)
       \/ CreateEKSCluster(r)
       \/ CreatePrometheusWorkspace(r)
       \/ CreatePromehtheusScraper(r)
       \/ CreatePrometheusScraperRoleBinding(r)
       \/ CreateGrafanaWorkspace(r)
    /\ UNCHANGED <<engineVars, attrRoleArn, arnVars>>

\* the application synthesized once and handed to the engine
Init ==
    /\ InitSynth
    /\ config[2] = config[1]
    /\ InitEngine
    /\ attrRoleArn = << >>
    /\ InitArn

Next ==
    \/ Constructor(1)
    \/ Deploy
    \/ \E id \in Ids : CreateResource(id)
    \/ \E id \in Ids : FailResource(id)
    \/ Destroy
    \/ \E id \in Ids : DeleteResource(id)

Spec == Init /\ [][Next]_vars

\* the engine without creation failures or teardown, under weak fairness
NextFair ==
    \/ Constructor(1)
    \/ Deploy
    \/ \E id \in Ids : CreateResource(id)

FairSpec == Init /\ [][NextFair]_vars /\ WF_vars(NextFair)

\* the application synthesized twice
NextSynth == \E r \in Runs : Constructor(r)

InitSynthSpec ==
    /\ InitSynth
    /\ InitEngine
    /\ attrRoleArn = << >>
    /\ InitArn

SynthSpec == InitSynthSpec /\ [][NextSynth]_vars

\* the ARN transformation applied to a bounded set of inputs
InitArnSpec ==
    /\ InitSynth
    /\ regionAzs = [r \in Regions |-> maxAzs]
    /\ config = [r \in Runs |-> [account |-> "114043003553", region |-> "us-east-1",
                                 blob |-> "config-blob"]]
    /\ InitEngine
    /\ attrRoleArn \in ArnInputs
    /\ InitArn

NextArn == SplitArn \/ SelectSuffix \/ SelectPrefix \/ BuildModifiedArn

ArnSpec == InitArnSpec /\ [][NextArn]_vars
----------------------------------------------------------------------------
(* Properties *)

Manifests == {"ApsCollectorClusterRole", "ApsCollectorClusterRoleBinding"}

Submitted(id) == Absent(id) /\ Present(id)'

ReadOnlyPolicies == {"AmazonPrometheusQueryAccess"}

\* C2: the dashboard workspace's execution role has exactly one managed
\* policy, and it is the read-only policy of the metrics service.
C2_GrafanaRoleReadOnly ==
    Synthesized(1) =>
        LET mp == stack[1].resources["GrafanaRole"].props.managedPolicies
        IN  Len(mp) = 1 /\ mp[1] \in ReadOnlyPolicies

FourSegmentLists == [1..4 -> Segments] \cup {LiteralSegments}

\* C3: an ARN of four "/"-delimited segments prefix/aa/bb/cc is transformed
\* to prefix/cc; the literal example yields
\* arn:aws:iam::123:role/AWSServiceRoleForAmazonPrometheusScraper_x.
C3_FourSegments ==
    arnPc = "done" =>
        /\ \A segs \in FourSegmentLists :
              attrRoleArn = Join(segs) =>
                  modifiedArn = segs[1] \o <<SLASH>> \o segs[4]
        /\ attrRoleArn = Join(LiteralSegments) =>
              modifiedArn = <<"arn:aws:iam::123:role", SLASH,
                              "AWSServiceRoleForAmazonPrometheusScraper_x">>

C3_Witness ==
    /\ arnPc = "done"
    /\ attrRoleArn = Join(LiteralSegments)
    /\ modifiedArn = <<"arn:aws:iam::123:role", SLASH,
                       "AWSServiceRoleForAmazonPrometheusScraper_x">>

AllSegmentLists == SegmentLists \cup {LiteralSegments}

\* C4 (as stated): whatever the number of segments (at least two), the
\* derived reference is the first segment joined by "/" with the final one.
C4_FirstAndFinal ==
    arnPc = "done" =>
        \A segs \in AllSegmentLists :
            (attrRoleArn = Join(segs) /\ Len(segs) >= 2) =>
                modifiedArn = segs[1] \o <<SLASH>> \o segs[Len(segs)]

\* C4 (amended): with at least four segments the derived reference is the
\* first segment joined by "/" with the fourth (index 3), the final one only
\* when there are exactly four; with fewer the selection fails and nothing
\* is derived.
C4_FirstAndFourth ==
    arnPc = "done" =>
        \A segs \in AllSegmentLists :
            attrRoleArn = Join(segs) =>
                IF Len(segs) >= 4
                THEN modifiedArn = segs[1] \o <<SLASH>> \o segs[4]
                ELSE modifiedArn = SelectError

\* five segments whose fourth and fifth differ: the fourth is taken
C4_Witness ==
    /\ arnPc = "done"
    /\ attrRoleArn = Join(<< <<"a">>, <<"b">>, <<"b">>, <<"a", "b">>, <<"b">> >>)
    /\ modifiedArn = <<"a", SLASH, "a", "b">>

SubnetResources(s, subnetType) ==
    {id \in DOMAIN s.resources :
        /\ s.resources[id].type = "AWS::EC2::Subnet"
        /\ s.resources[id].props.subnetType = subnetType}

\* C5: for every availability-zone count >= 1 the scraper's subnetIds are
\* exactly the identifiers of the network's private-with-egress subnets, one
\* per zone, and hold no public subnet.
C5_ScraperSubnetIds ==
    "PrometheusScraper" \in DOMAIN stack[1].resources =>
        LET ids == stack[1].resources["PrometheusScraper"].props.subnetIds
        IN  /\ Range(ids) = SubnetResources(stack[1], PRIVATE_WITH_EGRESS)
            /\ Range(ids) \cap SubnetResources(stack[1], PUBLIC) = {}
            /\ Len(ids) = NumAzs(stack[1])
            /\ Cardinality(Range(ids)) = Len(ids)
            /\ NumAzs(stack[1]) >= 1

\* three zones: three private subnets handed to the scraper, three public ones not
C5_Witness ==
    /\ Synthesized(1)
    /\ NumAzs(stack[1]) = maxAzs
    /\ Len(stack[1].resources["PrometheusScraper"].props.subnetIds) = maxAzs
    /\ Cardinality(SubnetResources(stack[1], PUBLIC)) = maxAzs

ScraperMappingApplied ==
    \E i \in DOMAIN awsAuth : awsAuth[i].username = "aps-collector-user"

\* C6: the identity-mapping entry for user aps-collector-user is applied to
\* the cluster only in states where the scraper exists: it is never present
\* while the scraper is absent.
C6_MappingOnlyWithScraper ==
    /\ ScraperMappingApplied => Present("PrometheusScraper")
    /\ Present("AwsAuth") => Present("PrometheusScraper") /\ ScraperMappingApplied

\* the entry applied, carrying the role derived from the scraper's own ARN
C6_Witness ==
    /\ Present("PrometheusScraper")
    /\ \E i \in DOMAIN awsAuth :
          /\ awsAuth[i].username = "aps-collector-user"
          /\ awsAuth[i].rolearn = ModifiedArn(attrRoleArn)
          /\ awsAuth[i].rolearn = <<"arn:aws:iam::123:role", SLASH,
                                    "AWSServiceRoleForAmazonPrometheusScraper_x">>

C8_ScraperAfterDependencies ==
    /\ Present("PrometheusScraper") =>
          /\ Present("VPC")
          /\ \A sn \in SubnetResources(Deployed, PRIVATE_WITH_EGRESS) : Present(sn)
          /\ Present("Cluster")
          /\ Present("PrometheusWorkspace")
    /\ Creatable("PrometheusScraper") =>
          Present("Cluster") /\ Present("PrometheusWorkspace")

\* the scraper created, over three private subnets
C8_Witness ==
    /\ Present("PrometheusScraper")
    /\ Cardinality(SubnetResources(Deployed, PRIVATE_WITH_EGRESS)) = maxAzs
    /\ Absent("AwsAuth")

ClusterSide ==
    (NetworkIds(Deployed) \cup
        {"Cluster", "ManagedNodeGroup", "PrometheusScraper", "AwsAuth"} \cup Manifests)

\* C9: the dashboard workspace declares no dependency but its execution
\* role, so the engine can create it whatever the state of the network, the
\* cluster, the node capacity, the scraper and the access bindings.
C9_GrafanaIndependent ==
    /\ Synthesized(1) =>
          /\ RefsOf("GrafanaWorkspace") = {"GrafanaRole"}
          /\ RefsOf("GrafanaRole") = {}
    /\ (phase = "deploy" /\ Present("GrafanaRole") /\ Absent("GrafanaWorkspace")) =>
          ENABLED CreateResource("GrafanaWorkspace")

\* the dashboard workspace present, the cluster failed, nothing attached to it created
C9_Witness ==
    /\ Present("GrafanaWorkspace")
    /\ Failed("Cluster")
    /\ \A id \in ClusterSide \ NetworkIds(Deployed) : ~Present(id)

RECURSIVE ReachableFrom(_, _, _)
ReachableFrom(s, frontier, seen) ==
    IF frontier = {} THEN seen
    ELSE LET next == (UNION {s.resources[id].refs : id \in frontier}) \ seen
         IN  ReachableFrom(s, next, seen \cup next)

\* no resource depends, directly or through others, on itself
Acyclic(s) ==
    \A id \in DOMAIN s.resources : id \notin ReachableFrom(s, {id}, {})

DeclaredResources ==
    {"VPC", "Cluster", "ManagedNodeGroup", "PrometheusWorkspace", "PrometheusScraper",
     "ApsCollectorClusterRole", "ApsCollectorClusterRoleBinding", "AwsAuth",
     "GrafanaRole", "GrafanaWorkspace"}

AllPresent ==
    /\ phase = "deploy"
    /\ DeclaredResources \subseteq Ids
    /\ \A id \in Ids : Present(id)

\* C10: the declared dependency graph is acyclic, and an engine that creates
\* a resource once its dependencies are present, under weak fairness and
\* without failures, never gets stuck before everything is present and
\* eventually has every declared resource present.
C10_EventuallyAllPresent ==
    /\ [](Acyclic(Deployed))
    /\ [](AllPresent \/ ENABLED NextFair)
    /\ <>[]AllPresent

C10_Witness == AllPresent /\ Acyclic(Deployed)
====
